---- MODULE Spec2Model ----
(***************************************************************************)
(* Model of the two event scrapers of the repository:                      *)
(*   AbuDhabiEventsFetcher (abu_dhabi_events_fetcher_1762774208177.py)     *)
(*   AdnecEventsFetcher    (adnec_events_fetcher.py)                       *)
(* Each method is an operator computed as the code computes it; the        *)
(* specifications below drive the methods over bounded inputs (what the    *)
(* transport, the browser and the remote pages may answer).                *)
(***************************************************************************)
EXTENDS Integers, Sequences, FiniteSets, TLC

\* ------------------------------------------------------------------ bounds
\* largest retry budget passed to fetch_page
MaxRetries == 4
\* anchors found in event-class containers outside the listing container
MaxAnchors == 1
\* item sub-containers in the listing container
MaxItems == 2
\* months in a requested date range
MaxMonths == 3
\* structured-data script blocks on a detail page
MaxScripts == 2
\* anchors on an ADNEC listing page
MaxLinks == 2

\* largest number of item links the browser finds on a listing page
MaxCount == 2
\* largest document height (in screens) of a listing page
MaxHeight == 2

\* longest raw location line, in tokens
MaxTokens == 3

\* for scroll_attempt in range(10)
MaxScrolls == 10

\* default of the retries parameter of fetch_page
DefaultRetries == 3

\* ------------------------------------------------------------------ helpers
\* Python's None
None == [kind |-> "None"]

\* Python truthiness of an Optional[str] / Optional[dict] result
Truthy(v) == v # None

SeqsUpTo(S, n) == UNION {[1..k -> S] : k \in 0..n}

Range(s) == {s[i] : i \in 1..Len(s)}

RECURSIVE Flatten(_)
Flatten(ss) == IF ss = <<>> THEN <<>> ELSE Head(ss) \o Flatten(Tail(ss))

\* ------------------------------------------------------------------ fetch_page
\* What one session.get + raise_for_status can do: return a body, or raise a
\* requests.RequestException (Timeout, ConnectionError, HTTPError on non-2xx).
TransportFailures == {"Timeout", "ConnectionError", "HTTPError"}

Ok(text) == [ok |-> TRUE, err |-> "", text |-> text]
Fail(e) == [ok |-> FALSE, err |-> e, text |-> None]

\* events a call leaves in the world, in order
Get(n) == [ev |-> "get", n |-> n]
Sleep(d) == [ev |-> "sleep", n |-> d]
\* the positions of the waits and of the requests in a trace
SleepsOf(trace) == {i \in 1..Len(trace) : trace[i].ev = "sleep"}
GetsOf(trace) == {i \in 1..Len(trace) : trace[i].ev = "get"}

\* time.sleep(2 ** attempt)
BackoffLinear(attempt) == attempt + 1
Backoff(attempt) == 2 ^ attempt

\* the except branch of the loop: retry after a sleep unless this was the last attempt
RetryAfterFailure(attempt, retries) == attempt < retries - 1

\* the last failed attempt: print "Failed to fetch", return None
ExhaustedRaises(attempt) == [raised |-> TRUE, ret |-> None, trace |-> <<Get(attempt)>>]
Exhausted(attempt) == [raised |-> FALSE, ret |-> None, trace |-> <<Get(attempt)>>]

\* for attempt in range(retries): try get / except RequestException
\* outs[attempt + 1] is what the transport does on that attempt.
\* Falling off the loop (retries = 0) returns None implicitly.
RECURSIVE RequestLoop(_, _, _)
RequestLoop(outs, retries, attempt) ==
    IF attempt >= retries
    THEN [raised |-> FALSE, ret |-> None, trace |-> <<>>]
    ELSE LET o == outs[attempt + 1] IN
         IF o.ok
         THEN [raised |-> FALSE, ret |-> o.text, trace |-> <<Get(attempt)>>]
         ELSE IF RetryAfterFailure(attempt, retries)
              THEN LET r == RequestLoop(outs, retries, attempt + 1) IN
                   [raised |-> r.raised, ret |-> r.ret,
                    trace |-> <<Get(attempt), Sleep(Backoff(attempt))>> \o r.trace]
              ELSE Exhausted(attempt)

\* AbuDhabiEventsFetcher.fetch_page(url, retries)
FetchPageAbuDhabi(outs, retries) == RequestLoop(outs, retries, 0)

\* ------------------------------------------------------------------ browser fetch
\* What the browser does during one fetch_page_with_selenium call:
\*   create: "ok", or "raises" when ChromeDriverManager().install() or
\*           webdriver.Chrome(...) raises (create_driver catches nothing);
\*   browse: "ok", or "exception" when a step inside the try block raises
\*           (driver.get, WebDriverWait(...).until, execute_script, find_elements,
\*           page_source);
\*   text:   driver.page_source when every step went through.
Browser(create, browse, text) == [create |-> create, browse |-> browse, text |-> text]

NoBrowser == Browser("none", "none", None)

Create == [ev |-> "create", n |-> 0]
Quit == [ev |-> "quit", n |-> 0]

\* AdnecEventsFetcher.create_driver: None without selenium, else the driver,
\* and any exception of the driver construction propagates.
CreateDriver(avail, b) ==
    IF ~avail THEN [raised |-> FALSE, driver |-> FALSE]
    ELSE IF b.create = "raises" THEN [raised |-> TRUE, driver |-> FALSE]
    ELSE [raised |-> FALSE, driver |-> TRUE]

\* AdnecEventsFetcher.fetch_page_with_selenium
FetchPageWithSelenium(avail, b) ==
    LET d == CreateDriver(avail, b) IN
    IF d.raised THEN [raised |-> TRUE, ret |-> None, trace |-> <<>>]
    ELSE IF ~d.driver THEN [raised |-> FALSE, ret |-> None, trace |-> <<>>]
    ELSE IF b.browse = "exception"
         THEN [raised |-> FALSE, ret |-> None, trace |-> <<Create, Quit>>]
         ELSE [raised |-> FALSE, ret |-> b.text, trace |-> <<Create, Quit>>]

\* AdnecEventsFetcher.fetch_page(url, retries): a listing url goes through the
\* browser when self.use_selenium, everything else through the request loop.
FetchPageAdnec(isListing, use_selenium, b, outs, retries) ==
    IF isListing /\ use_selenium
    THEN FetchPageWithSelenium(TRUE, b)
    ELSE RequestLoop(outs, retries, 0)

\* ------------------------------------------------------------------ listing page (source 1)
\* The label of the language switch, "عربي" in the source.
ArabicLabel == "<arabic label>"

\* link.get_text() of the anchors of a page
RawTexts == {"", " Expo 2025 ", "View Event", ArabicLabel}

\* str.strip()
Strip(t) == IF t = " Expo 2025 " THEN "Expo 2025" ELSE t

\* str.lower()
Lower(t) ==
    CASE t = "Expo 2025" -> "expo 2025"
      [] t = " Expo 2025 " -> " expo 2025 "
      [] t = "View Event" -> "view event"
      [] t = "Export" -> "export"
      [] t = "Filter" -> "filter"
      [] OTHER -> t

\* href attributes matching /abu-dhabi-events/ (the only anchors either strategy looks at)
Hrefs == {"/en/abu-dhabi-events/a",
          "https://www.mediaoffice.abudhabi/en/abu-dhabi-events/a",
          "/en/abu-dhabi-events/b"}

\* urljoin(base_url, href), base_url being a month url of www.mediaoffice.abudhabi
UrlJoin(href) ==
    CASE href = "" -> "https://www.mediaoffice.abudhabi/en/abu-dhabi-events/"
      [] href = "/en/abu-dhabi-events/a" -> "https://www.mediaoffice.abudhabi/en/abu-dhabi-events/a"
      [] href = "/en/abu-dhabi-events/b" -> "https://www.mediaoffice.abudhabi/en/abu-dhabi-events/b"
      [] OTHER -> href

Anchor(text, href) == [text |-> text, href |-> href]
Anchors == {Anchor(t, h) : t \in RawTexts, h \in Hrefs}

\* The parsed page (soup), as the two strategies see it:
\*   other:   the matching anchors inside the nodes of class ~ /event/ that lie
\*            outside the listing container, in document order;
\*   hasList: whether a div of class "calendar-events" exists;
\*   items:   its item sub-containers, each with its matching anchors in order.
\* The listing container's class matches /event/ as well, so the anchors of its
\* items are anchors of an event-class node too.
Page(other, hasList, items) == [other |-> other, hasList |-> hasList, items |-> items]

PagesOf(anchors, nOther, nItems) ==
    {Page(o, FALSE, <<>>) : o \in SeqsUpTo(anchors, nOther)}
    \cup {Page(o, TRUE, it) : o \in SeqsUpTo(anchors, nOther),
                              it \in SeqsUpTo(SeqsUpTo(anchors, 1), nItems)}

Html(page) == [kind |-> "html", page |-> page]

\* dataclass Event (title, url; the dates, location and view_event_url read
\* from the surrounding text are not modelled)
Event(title, url) == [title |-> title, url |-> url]

\* line 90: the titles the calendar strategy rejects
CalendarBoilerplate == {"view event", "export", ArabicLabel}
\* line 145: the titles the list strategy rejects
ListBoilerplate == {"view event", "export", "filter"}

\* soup.find_all(['div', 'a'], class_=/event/) then container.find_all('a', href=...)
CalendarLinks(page) == page.other \o Flatten(page.items)

\* if title and event_url and not title.lower() in [...]
CalendarKeeps(title, event_url) ==
    title # "" /\ event_url # "" /\ Lower(title) \notin CalendarBoilerplate

RECURSIVE ExtractEventsFromCalendarLinks(_)
ExtractEventsFromCalendarLinks(links) ==
    IF links = <<>> THEN <<>>
    ELSE LET link == Head(links)
             event_url == UrlJoin(link.href)
             title == Strip(link.text)
         IN (IF CalendarKeeps(title, event_url) THEN <<Event(title, event_url)>> ELSE <<>>)
            \o ExtractEventsFromCalendarLinks(Tail(links))

\* AbuDhabiEventsFetcher.extract_events_from_calendar
ExtractEventsFromCalendar(page) == ExtractEventsFromCalendarLinks(CalendarLinks(page))

\* if not title or title.lower() in [...]: continue
ListSkips(title) == title = "" \/ Lower(title) \in ListBoilerplate

RECURSIVE ExtractEventsFromItems(_)
ExtractEventsFromItems(items) ==
    IF items = <<>> THEN <<>>
    ELSE LET item == Head(items)
             rest == ExtractEventsFromItems(Tail(items))
         IN IF item = <<>> THEN rest
            ELSE LET event_link == Head(item)
                     title == Strip(event_link.text)
                     event_url == UrlJoin(event_link.href)
                 IN IF ListSkips(title) THEN rest
                    ELSE <<Event(title, event_url)>> \o rest

\* AbuDhabiEventsFetcher.extract_events_from_list
ExtractEventsFromList(page) ==
    IF ~page.hasList THEN <<>> ELSE ExtractEventsFromItems(page.items)

\* all_events = calendar_events + list_events
CombineListFirst(calendar_events, list_events) == list_events \o calendar_events
Combine(calendar_events, list_events) == calendar_events \o list_events

\* the seen_urls loop of fetch_events_for_month
RECURSIVE UniqueEvents(_, _)
UniqueEvents(all_events, seen_urls) ==
    IF all_events = <<>> THEN <<>>
    ELSE LET event == Head(all_events) IN
         IF event.url \notin seen_urls
         THEN <<event>> \o UniqueEvents(Tail(all_events), seen_urls \cup {event.url})
         ELSE UniqueEvents(Tail(all_events), seen_urls)

\* AbuDhabiEventsFetcher.fetch_events_for_month, outs being what the transport
\* does on the attempts of fetch_page(url)
FetchEventsForMonth(outs) ==
    LET f == FetchPageAbuDhabi(outs, DefaultRetries)
        html_content == f.ret
    IN IF ~Truthy(html_content) THEN [events |-> <<>>, trace |-> f.trace]
       ELSE LET soup == html_content.page
                calendar_events == ExtractEventsFromCalendar(soup)
                list_events == ExtractEventsFromList(soup)
                all_events == Combine(calendar_events, list_events)
            IN [events |-> UniqueEvents(all_events, {}), trace |-> f.trace]

\* the transport failing nfail times in a row, then answering with the page
Transport(nfail, page) ==
    [i \in 1..DefaultRetries |-> IF i <= nfail THEN Fail("Timeout") ELSE Ok(Html(page))]

\* ------------------------------------------------------------------ ADNEC listing pages
\* An absolute url of www.adnec.ae/<lang>/eventlisting/<slug>; the empty string
\* is NoUrl.
Url(lang, slug) == [lang |-> lang, slug |-> slug]
NoUrl == Url("", "")

\* an href attribute holding '/eventlisting/': site-relative or absolute
Href(abs, lang, slug) == [abs |-> abs, lang |-> lang, slug |-> slug]
Slugs == {"expo", "summit"}
ListingHrefs(lang) == {Href(a, lang, sl) : a \in BOOLEAN, sl \in Slugs}

\* urljoin(base_url, href) with base_url on www.adnec.ae
AdnecUrlJoin(href) == Url(href.lang, href.slug)

\* the listing page as extract_event_urls_from_listing sees it: the hrefs of
\* the anchors soup.find_all keeps, in document order
ListingHtml(links) == [kind |-> "html", links |-> links]

\* href and href not in ['/en/eventlisting', '/ar/eventlisting']: neither string
\* holds the '/eventlisting/' that every href kept by find_all holds
IsEventHref(href) == TRUE

RECURSIVE ExtractEventUrls(_, _)
ExtractEventUrls(links, seen_urls) ==
    IF links = <<>> THEN <<>>
    ELSE LET href == Head(links)
             full_url == AdnecUrlJoin(href)
         IN IF IsEventHref(href) /\ full_url \notin seen_urls
            THEN <<full_url>> \o ExtractEventUrls(Tail(links), seen_urls \cup {full_url})
            ELSE ExtractEventUrls(Tail(links), seen_urls)

\* AdnecEventsFetcher.extract_event_urls_from_listing
ExtractEventUrlsFromListing(html_content) == ExtractEventUrls(html_content.links, {})

\* for ar_url in ar_urls: url_mapping[en_equivalent] = ar_url
\* (slug = ar_url.split('/eventlisting/')[-1]; a later ar_url of the same slug
\* overwrites an earlier one)
RECURSIVE BuildUrlMapping(_, _)
BuildUrlMapping(ar_urls, url_mapping) ==
    IF ar_urls = <<>> THEN url_mapping
    ELSE LET ar_url == Head(ar_urls)
             en_equivalent == Url("en", ar_url.slug)
         IN BuildUrlMapping(Tail(ar_urls),
                [u \in DOMAIN url_mapping \cup {en_equivalent} |->
                    IF u = en_equivalent THEN ar_url ELSE url_mapping[u]])

EmptyMapping == [u \in {} |-> NoUrl]

\* url_mapping.get(en_url, '')
MappingGetAny(url_mapping, en_url) ==
    IF DOMAIN url_mapping # {} THEN url_mapping[CHOOSE u \in DOMAIN url_mapping : TRUE]
    ELSE NoUrl
MappingGet(url_mapping, en_url) ==
    IF en_url \in DOMAIN url_mapping THEN url_mapping[en_url] ELSE NoUrl

\* ------------------------------------------------------------------ ADNEC detail pages
\* A <script type="application/ld+json"> block of a detail page:
\*   "empty":     script.string is None or does not hold '@type' (not looked at);
\*   "invalid":   holds '@type', json.loads raises JSONDecodeError;
\*   "nonobject": holds '@type', parses to a list or a scalar;
\*   "object":    parses to a dict with '@type' = type, 'name' = name (absent: the
\*                .get default ''), and organizer "absent", an "object" or
\*                another JSON value ("string").
Block(kind, type, name, organizer) ==
    [kind |-> kind, type |-> type, name |-> name, organizer |-> organizer]

ArabicTitle == "<arabic title>"
Blocks ==
    {Block(k, "", "", "absent") : k \in {"empty", "invalid", "nonobject"}}
    \cup {Block("object", "Organization", "ADNEC", "absent")}
    \cup {Block("object", "Event", n, o) :
            n \in {"", "Expo 2025", ArabicTitle}, o \in {"absent", "object", "string"}}

DetailHtml(scripts) == [kind |-> "html", scripts |-> scripts]

\* the dict extract_event_details returns (dates, description and image are
\* copied from the same block and not modelled; the location is HallLocation)
Details(title, url, organizer) == [kind |-> "dict", title |-> title, url |-> url, organizer |-> organizer]

\* the for loop over the script blocks: the first block of type Event, None
\* when there is none; data.get on a value that is no dict raises AttributeError,
\* which the except json.JSONDecodeError clause does not catch
RECURSIVE FindEventData(_)
FindEventData(scripts) ==
    IF scripts = <<>> THEN [raised |-> FALSE, data |-> None]
    ELSE LET script == Head(scripts) IN
         CASE script.kind = "empty" -> FindEventData(Tail(scripts))
           [] script.kind = "invalid" -> FindEventData(Tail(scripts))
           [] script.kind = "nonobject" -> [raised |-> TRUE, data |-> None]
           [] OTHER -> IF script.type = "Event"
                       THEN [raised |-> FALSE, data |-> script]
                       ELSE FindEventData(Tail(scripts))

\* if 'organizer' in event_data: org.get('name', '') raises AttributeError when
\* org is no dict
OrganizerOf(event_data) ==
    CASE event_data.organizer = "absent" -> [raised |-> FALSE, name |-> ""]
      [] event_data.organizer = "object" -> [raised |-> FALSE, name |-> "Organizer"]
      [] OTHER -> [raised |-> TRUE, name |-> ""]

\* AdnecEventsFetcher.extract_event_details(url), outs being what the transport
\* does on the attempts of fetch_page(url) (a detail url: the request loop)
ExtractEventDetails(url, outs) ==
    LET f == FetchPageAdnec(FALSE, FALSE, NoBrowser, outs, DefaultRetries)
        html_content == f.ret
    IN IF ~Truthy(html_content) THEN [raised |-> FALSE, ret |-> None, trace |-> f.trace]
       ELSE LET found == FindEventData(html_content.scripts) IN
            IF found.raised THEN [raised |-> TRUE, ret |-> None, trace |-> f.trace]
            ELSE IF ~Truthy(found.data) THEN [raised |-> FALSE, ret |-> None, trace |-> f.trace]
            ELSE LET org == OrganizerOf(found.data) IN
                 IF org.raised THEN [raised |-> TRUE, ret |-> None, trace |-> f.trace]
                 ELSE [raised |-> FALSE,
                       ret |-> Details(found.data.name, url, org.name),
                       trace |-> f.trace]

\* the transport failing nfail times in a row, then answering with html
TransportHtml(nfail, html) ==
    [i \in 1..DefaultRetries |-> IF i <= nfail THEN Fail("Timeout") ELSE Ok(html)]

\* dataclass AdnecEvent
AdnecEvent(title, title_ar, url, url_ar, organizer) ==
    [title |-> title, title_ar |-> title_ar, url |-> url, url_ar |-> url_ar,
     organizer |-> organizer]

\* ------------------------------------------------------------------ state
VARIABLES
    fp,             \* the last fetch_page call: its arguments and what it did
    mo,             \* the last fetch_events_for_month call
    rg_pc,          \* fetch_events_for_date_range: "idle", "loop", "done"
    rg_args,        \* its arguments
    current_month, current_year,
    all_events,     \* its accumulator, returned at "done"
    rg_log,         \* the cycles, requests and sleeps it made, in order
    rg_hist,        \* what the transport answered in each cycle
    det,            \* the last extract_event_details call
    ad_pc,          \* fetch_all_events: "idle", "en_listing", "ar_listing",
                    \* "items", "done" (returned), "raised" (left by an exception)
    ad_args,        \* include_arabic and the fetcher's use_selenium
    en_urls, url_mapping,
    ad_i,           \* index of the item the for loop is at
    events,         \* its accumulator, returned at "done"
    ad_log,         \* the items, requests, browser runs and sleeps, in order
    ad_hist,        \* what became of the listings and of each item
    sel_pc,         \* fetch_page_with_selenium: "idle", "create", "get", "wait",
                    \* "height", "scroll", "source", "except", "finally",
                    \* "returned", "raised" (left by an exception)
    driver,         \* the browser instance: "none", "alive", "quit"
    quits,          \* number of driver.quit() calls
    scroll_attempt, \* iterations of the scroll loop started so far
    events_count, last_height,
    sel_seen,       \* what the last iteration saw: new_count, new_height and the
                    \* events_count and last_height it compared them with
    sel_ret,        \* the value the call returns
    sel_failed,     \* the step that raised inside the try block, "" when none
    fl,             \* a call of format_location: its argument, its result and the
                    \* result of formatting that result again
    hl              \* the location part of extract_event_details: the page's
                    \* location markup and the hall_location it yields

fetchVars == <<fp>>
monthVars == <<mo>>
rangeVars == <<rg_pc, rg_args, current_month, current_year, all_events, rg_log, rg_hist>>
detailVars == <<det>>
adnecVars == <<ad_pc, ad_args, en_urls, url_mapping, ad_i, events, ad_log, ad_hist>>
seleniumVars == <<sel_pc, driver, quits, scroll_attempt, events_count, last_height,
                  sel_seen, sel_ret, sel_failed>>
locationVars == <<fl, hl>>
vars == <<fp, mo, rg_pc, rg_args, current_month, current_year, all_events, rg_log, rg_hist,
          det, ad_pc, ad_args, en_urls, url_mapping, ad_i, events, ad_log, ad_hist,
          sel_pc, driver, quits, scroll_attempt, events_count, last_height,
          sel_seen, sel_ret, sel_failed, fl, hl>>

NoCall == [called |-> FALSE]
NoArgs == [start_month |-> 0, start_year |-> 0, end_month |-> 0, end_year |-> 0]

InitFetch == fp = NoCall
InitMonth == mo = NoCall
InitRange ==
    /\ rg_pc = "idle"
    /\ rg_args = NoArgs
    /\ current_month = 0
    /\ current_year = 0
    /\ all_events = <<>>
    /\ rg_log = <<>>
    /\ rg_hist = <<>>

InitDetail == det = NoCall
InitAdnec ==
    /\ ad_pc = "idle"
    /\ ad_args = [include_arabic |-> FALSE, use_selenium |-> FALSE]
    /\ en_urls = <<>>
    /\ url_mapping = EmptyMapping
    /\ ad_i = 0
    /\ events = <<>>
    /\ ad_log = <<>>
    /\ ad_hist = [en |-> "none", ar |-> "none", ar_urls |-> <<>>, items |-> <<>>]

NotSeen == [new_count |-> 0, events_count |-> 0, new_height |-> 0, last_height |-> 0]
InitSelenium ==
    /\ sel_pc = "idle"
    /\ driver = "none"
    /\ quits = 0
    /\ scroll_attempt = 0
    /\ events_count = 0
    /\ last_height = 0
    /\ sel_seen = NotSeen
    /\ sel_ret = None
    /\ sel_failed = ""

InitLocation ==
    /\ fl = NoCall
    /\ hl = NoCall

Init == InitFetch /\ InitMonth /\ InitRange /\ InitDetail /\ InitAdnec /\ InitSelenium
        /\ InitLocation

\* ------------------------------------------------------------------ SpecFetch
Markups == {[kind |-> "html", id |-> "m1"], [kind |-> "html", id |-> "m2"]}
Outcomes == {Ok(m) : m \in Markups} \cup {Fail(e) : e \in TransportFailures}
Browsers == {Browser("raises", "ok", None)}
            \cup {Browser("ok", "exception", None)}
            \cup {Browser("ok", "ok", m) : m \in Markups}

CallFetchPageAbuDhabi ==
    /\ ~fp.called
    /\ \E retries \in 0..MaxRetries : \E outs \in [1..retries -> Outcomes] :
           fp' = [called |-> TRUE, fetcher |-> "AbuDhabi", plain |-> TRUE,
                  retries |-> retries, outs |-> outs, browser |-> NoBrowser,
                  res |-> FetchPageAbuDhabi(outs, retries)]

\* a detail url, or a listing url of a fetcher built with use_selenium = False
CallFetchPageAdnecPlain ==
    /\ ~fp.called
    /\ \E retries \in 0..MaxRetries : \E outs \in [1..retries -> Outcomes] :
       \E isListing \in BOOLEAN :
           fp' = [called |-> TRUE, fetcher |-> "Adnec", plain |-> TRUE,
                  retries |-> retries, outs |-> outs, browser |-> NoBrowser,
                  res |-> FetchPageAdnec(isListing, FALSE, NoBrowser, outs, retries)]

\* a listing url of a fetcher with use_selenium
CallFetchPageAdnecListing ==
    /\ ~fp.called
    /\ \E b \in Browsers :
           fp' = [called |-> TRUE, fetcher |-> "Adnec", plain |-> FALSE,
                  retries |-> DefaultRetries, outs |-> <<>>, browser |-> b,
                  res |-> FetchPageAdnec(TRUE, TRUE, b, <<>>, DefaultRetries)]

NextFetch ==
    \/ CallFetchPageAbuDhabi /\ UNCHANGED <<monthVars, rangeVars, detailVars, adnecVars, seleniumVars, locationVars>>
    \/ CallFetchPageAdnecPlain /\ UNCHANGED <<monthVars, rangeVars, detailVars, adnecVars, seleniumVars, locationVars>>
    \/ CallFetchPageAdnecListing /\ UNCHANGED <<monthVars, rangeVars, detailVars, adnecVars, seleniumVars, locationVars>>

SpecFetch == Init /\ [][NextFetch]_vars

\* ------------------------------------------------------------------ SpecMonth
\* the page the site serves when the transport works, no page when every
\* attempt fails
CallFetchEventsForMonth ==
    /\ ~mo.called
    /\ \/ \E page \in PagesOf(Anchors, MaxAnchors, MaxItems) :
              mo' = [called |-> TRUE, page |-> page, nfail |-> 0,
                     res |-> FetchEventsForMonth(Transport(0, page))]
       \/ mo' = [called |-> TRUE, page |-> Page(<<>>, FALSE, <<>>), nfail |-> DefaultRetries,
                 res |-> FetchEventsForMonth(Transport(DefaultRetries, Page(<<>>, FALSE, <<>>)))]

NextMonth == CallFetchEventsForMonth /\ UNCHANGED <<fetchVars, rangeVars, detailVars, adnecVars, seleniumVars, locationVars>>

SpecMonth == Init /\ [][NextMonth]_vars

\* ------------------------------------------------------------------ SpecRange
\* month + 12 * year, to bound the requested ranges
Ord(month, year) == 12 * year + month

StartMonths == {1, 11, 12}
RangeArgs ==
    {[start_month |-> sm, start_year |-> 2024, end_month |-> em, end_year |-> ey] :
        sm \in StartMonths, em \in 1..12, ey \in {2023, 2024, 2025}}

\* the pages the months of a range answer with
RangePages == PagesOf({Anchor(" Expo 2025 ", "/en/abu-dhabi-events/a"),
                       Anchor(" Expo 2025 ", "/en/abu-dhabi-events/b")}, 1, 0)

Cycle(month, year) == [ev |-> "cycle", month |-> month, year |-> year]

\* while (current_year < end_year) or (current_year == end_year and current_month <= end_month)
LoopStrict(cm, cy, args) ==
    (cy < args.end_year) \/ (cy = args.end_year /\ cm < args.end_month)
LoopCondition(cm, cy, args) ==
    (cy < args.end_year) \/ (cy = args.end_year /\ cm <= args.end_month)

CallFetchEventsForDateRange ==
    /\ rg_pc = "idle"
    /\ \E args \in RangeArgs :
        /\ Ord(args.end_month, args.end_year) - Ord(args.start_month, args.start_year)
              \in (0 - MaxMonths)..(MaxMonths - 1)
        /\ rg_args' = args
        /\ current_month' = args.start_month
        /\ current_year' = args.start_year
    /\ all_events' = <<>>
    /\ rg_pc' = "loop"
    /\ UNCHANGED <<rg_log, rg_hist>>

\* one iteration of the while loop
\* all_events.extend(month_events)
ExtendReplaces(list, more) == more
Extend(list, more) == list \o more

RangeCycle ==
    /\ rg_pc = "loop"
    /\ LoopCondition(current_month, current_year, rg_args)
    /\ \E page \in RangePages : \E nfail \in 0..DefaultRetries :
        LET outs == Transport(nfail, page)
            month == FetchEventsForMonth(outs)
        IN /\ all_events' = Extend(all_events, month.events)
           /\ rg_log' = rg_log \o <<Cycle(current_month, current_year)>>
                               \o month.trace \o <<Sleep(1)>>
           /\ rg_hist' = Append(rg_hist, outs)
    /\ IF current_month + 1 > 12
       THEN current_month' = 1 /\ current_year' = current_year + 1
       ELSE current_month' = current_month + 1 /\ current_year' = current_year
    /\ UNCHANGED <<rg_pc, rg_args>>

RangeReturn ==
    /\ rg_pc = "loop"
    /\ ~LoopCondition(current_month, current_year, rg_args)
    /\ rg_pc' = "done"
    /\ UNCHANGED <<rg_args, current_month, current_year, all_events, rg_log, rg_hist>>

NextRange ==
    \/ CallFetchEventsForDateRange /\ UNCHANGED <<fetchVars, monthVars, detailVars, adnecVars, seleniumVars, locationVars>>
    \/ RangeCycle /\ UNCHANGED <<fetchVars, monthVars, detailVars, adnecVars, seleniumVars, locationVars>>
    \/ RangeReturn /\ UNCHANGED <<fetchVars, monthVars, detailVars, adnecVars, seleniumVars, locationVars>>

SpecRange == Init /\ [][NextRange]_vars

\* ------------------------------------------------------------------ SpecDetail
DetailUrls == {Url("en", "expo"), Url("ar", "expo")}
\* the detail pages with n structured-data blocks at most
DetailPages(n) == {DetailHtml(sc) : sc \in SeqsUpTo(Blocks, n)}

CallExtractEventDetails ==
    /\ ~det.called
    /\ \E url \in DetailUrls : \E page \in DetailPages(MaxScripts) : \E nfail \in {0, DefaultRetries} :
           det' = [called |-> TRUE, url |-> url, page |-> page, nfail |-> nfail,
                   res |-> ExtractEventDetails(url, TransportHtml(nfail, page))]

NextDetail == CallExtractEventDetails /\ UNCHANGED <<fetchVars, monthVars, rangeVars, adnecVars, seleniumVars, locationVars>>

SpecDetail == Init /\ [][NextDetail]_vars

\* ------------------------------------------------------------------ SpecAdnec
\* the listing pages of a run
ListingPages(lang) == {ListingHtml(l) : l \in SeqsUpTo(ListingHrefs(lang), MaxLinks)}
\* the detail pages of a run: one structured-data block at most
ItemPages == DetailPages(1)

Item(i) == [ev |-> "item", n |-> i]

\* fetch_page(self.base_url_en) / fetch_page(self.base_url_ar): through the
\* browser when use_selenium, else through the request loop; page is what the
\* site serves, create and browse what the browser does, nfail the transport
FetchListing(use_selenium, create, browse, page, nfail) ==
    FetchPageAdnec(TRUE, use_selenium, Browser(create, browse, page),
                   TransportHtml(nfail, page), DefaultRetries)

\* what happened to a listing fetch, for ad_hist
ListingOutcome(use_selenium, create, f) ==
    IF use_selenium /\ create = "raises" THEN "driver_failed"
    ELSE IF ~Truthy(f.ret) THEN "absent"
    ELSE "fetched"

CallFetchAllEvents ==
    /\ ad_pc = "idle"
    /\ \E ia \in BOOLEAN, us \in BOOLEAN :
           ad_args' = [include_arabic |-> ia, use_selenium |-> us]
    /\ ad_pc' = "en_listing"
    /\ UNCHANGED <<en_urls, url_mapping, ad_i, events, ad_log, ad_hist>>

\* lines 287-295: the English listing; return [] when it is not available
FetchEnglishListing ==
    /\ ad_pc = "en_listing"
    /\ \E page \in ListingPages("en") : \E nfail \in {0, DefaultRetries} :
       \E create \in {"ok", "raises"}, browse \in {"ok", "exception"} :
           LET f == FetchListing(ad_args.use_selenium, create, browse, page, nfail)
               en_html == f.ret
           IN /\ ad_log' = ad_log \o f.trace
              /\ ad_hist' = [ad_hist EXCEPT
                                !.en = ListingOutcome(ad_args.use_selenium, create, f)]
              /\ IF f.raised
                 THEN ad_pc' = "raised" /\ UNCHANGED en_urls
                 ELSE IF ~Truthy(en_html)
                      THEN ad_pc' = "done" /\ UNCHANGED en_urls
                      ELSE /\ ad_pc' = "ar_listing"
                           /\ en_urls' = ExtractEventUrlsFromListing(en_html)
    /\ UNCHANGED <<ad_args, url_mapping, ad_i, events>>

\* lines 297-309: the Arabic listing and the url mapping
FetchArabicListing ==
    /\ ad_pc = "ar_listing"
    /\ IF ~ad_args.include_arabic
       THEN /\ ad_pc' = "items"
            /\ UNCHANGED <<url_mapping, ad_log, ad_hist>>
       ELSE \E page \in ListingPages("ar") : \E nfail \in {0, DefaultRetries} :
            \E create \in {"ok", "raises"}, browse \in {"ok", "exception"} :
                LET f == FetchListing(ad_args.use_selenium, create, browse, page, nfail)
                    ar_html == f.ret
                    ar_urls == IF ~f.raised /\ Truthy(ar_html)
                               THEN ExtractEventUrlsFromListing(ar_html) ELSE <<>>
                IN /\ ad_log' = ad_log \o f.trace
                   /\ ad_hist' = [ad_hist EXCEPT
                                     !.ar = ListingOutcome(ad_args.use_selenium, create, f),
                                     !.ar_urls = ar_urls]
                   /\ IF f.raised
                      THEN ad_pc' = "raised" /\ UNCHANGED url_mapping
                      ELSE /\ ad_pc' = "items"
                           /\ url_mapping' =
                                 IF Truthy(ar_html)
                                 THEN BuildUrlMapping(ar_urls, EmptyMapping)
                                 ELSE EmptyMapping
    /\ ad_i' = 1
    /\ UNCHANGED <<ad_args, en_urls, events>>

\* if not en_details: continue
AfterSkipBreak(i, n) == n + 1
AfterSkip(i, n) == i + 1

\* lines 315-345: one iteration of the for loop over en_urls
ProcessItem ==
    /\ ad_pc = "items"
    /\ ad_i <= Len(en_urls)
    /\ \E en_page \in ItemPages, ar_page \in ItemPages :
       \E en_nfail \in {0, DefaultRetries}, ar_nfail \in {0, DefaultRetries} :
           LET en_url == en_urls[ad_i]
               en == ExtractEventDetails(en_url, TransportHtml(en_nfail, en_page))
               en_details == en.ret
               ar_url == MappingGet(url_mapping, en_url)
               ar == ExtractEventDetails(ar_url, TransportHtml(ar_nfail, ar_page))
               ar_details == ar.ret
               title_ar == IF ar_url # NoUrl /\ Truthy(ar_details) THEN ar_details.title ELSE ""
               log1 == ad_log \o <<Item(ad_i)>> \o en.trace
               Hist(e, a) == [ad_hist EXCEPT !.items =
                                 Append(@, [en |-> e, ar |-> a,
                                            title |-> IF e = "record" THEN en_details.title
                                                      ELSE "",
                                            organizer |-> IF e = "record"
                                                          THEN en_details.organizer ELSE "",
                                            ar_title |-> IF a = "record" THEN ar_details.title
                                                         ELSE "",
                                            en_gets |-> Cardinality(GetsOf(en.trace)),
                                            ar_gets |-> IF a \in {"none", "unmapped"} THEN 0
                                                        ELSE Cardinality(GetsOf(ar.trace))])]
           IN IF en.raised
              THEN /\ ad_pc' = "raised"
                   /\ ad_log' = log1
                   /\ ad_hist' = Hist("raised", "none")
                   /\ UNCHANGED <<ad_i, events>>
              ELSE IF ~Truthy(en_details)
              THEN /\ ad_i' = AfterSkip(ad_i, Len(en_urls))
                   /\ ad_log' = log1
                   /\ ad_hist' = Hist("absent", "none")
                   /\ UNCHANGED <<ad_pc, events>>
              ELSE IF ar_url # NoUrl /\ ar.raised
              THEN /\ ad_pc' = "raised"
                   /\ ad_log' = log1 \o ar.trace
                   /\ ad_hist' = Hist("record", "raised")
                   /\ UNCHANGED <<ad_i, events>>
              ELSE /\ events' = Append(events,
                                  AdnecEvent(en_details.title, title_ar, en_url, ar_url,
                                             en_details.organizer))
                   /\ ad_log' = log1 \o (IF ar_url # NoUrl THEN ar.trace ELSE <<>>)
                                     \o <<Sleep(1)>>
                   /\ ad_hist' = Hist("record",
                                      IF ar_url = NoUrl THEN "unmapped"
                                      ELSE IF Truthy(ar_details) THEN "record" ELSE "absent")
                   /\ ad_i' = ad_i + 1
                   /\ UNCHANGED ad_pc
    /\ UNCHANGED <<ad_args, en_urls, url_mapping>>

\* return events
ReturnEvents ==
    /\ ad_pc = "items"
    /\ ad_i > Len(en_urls)
    /\ ad_pc' = "done"
    /\ UNCHANGED <<ad_args, en_urls, url_mapping, ad_i, events, ad_log, ad_hist>>

NextAdnec ==
    \/ CallFetchAllEvents /\ UNCHANGED <<fetchVars, monthVars, rangeVars, detailVars, seleniumVars, locationVars>>
    \/ FetchEnglishListing /\ UNCHANGED <<fetchVars, monthVars, rangeVars, detailVars, seleniumVars, locationVars>>
    \/ FetchArabicListing /\ UNCHANGED <<fetchVars, monthVars, rangeVars, detailVars, seleniumVars, locationVars>>
    \/ ProcessItem /\ UNCHANGED <<fetchVars, monthVars, rangeVars, detailVars, seleniumVars, locationVars>>
    \/ ReturnEvents /\ UNCHANGED <<fetchVars, monthVars, rangeVars, detailVars, seleniumVars, locationVars>>

SpecAdnec == Init /\ [][NextAdnec]_vars

\* ------------------------------------------------------------------ SpecLocation
\* A location string is a sequence of tokens: words, a digit, a dash, a blank.
HallWords == {"Hall", "Halls", "hall"}
Tokens == HallWords \cup {" ", "3", "-", "ADNEC", "adnec", "Area"}

\* location.strip()
RECURSIVE StripLocation(_)
StripLocation(location) ==
    IF location = <<>> THEN <<>>
    ELSE IF Head(location) = " " THEN StripLocation(Tail(location))
    ELSE IF location[Len(location)] = " "
         THEN StripLocation(SubSeq(location, 1, Len(location) - 1))
    ELSE location

\* re.match(r'^Hall[s]?\s+[\d\-,\s]+$', location, re.IGNORECASE)
MatchesHallPattern(location) ==
    /\ Len(location) >= 3
    /\ location[1] \in HallWords
    /\ location[2] = " "
    /\ \A i \in 3..Len(location) : location[i] \in {"3", "-", " "}

\* 'hall' in location.lower()
ContainsHall(location) == \E i \in 1..Len(location) : location[i] \in HallWords

\* 'ADNEC' not in location, negated
ContainsAdnecNever(location) == FALSE
ContainsAdnec(location) == \E i \in 1..Len(location) : location[i] = "ADNEC"

\* f"ADNEC ({location})"
Wrap(location) == <<"ADNEC", " ", "(">> \o location \o <<")">>

FormatLocation(location) ==
    LET stripped == StripLocation(location) IN
    IF MatchesHallPattern(stripped) THEN Wrap(stripped)
    ELSE IF ContainsHall(stripped) /\ ~ContainsAdnec(stripped) THEN Wrap(stripped)
    ELSE stripped

\* hall_location = "ADNEC Centre Abu Dhabi"
GenericName == <<"ADNEC", " ", "Centre", " ", "Abu", " ", "Dhabi">>

\* The lines of the container around the location label, each stripped and
\* none empty. 'Location:' in line is the token "Location:"; the arabic label
\* carries no colon; ':' in line is any token ending in a colon.
LabelLine == <<"Location:">>
LowerLabelLine == <<"location:">>
ArabicLabelLine == <<ArabicLabel>>
DateLine == <<"Date:", " ", "3">>
HasLabel(line) == \E i \in 1..Len(line) : line[i] \in {"Location:", ArabicLabel}
HasColon(line) == \E i \in 1..Len(line) : line[i] \in {"Location:", "location:", "Date:"}

\* the location markup of a detail page: whether soup.find meets a label,
\* whether the label has a div or section around it, and that container's lines
LocationMarkup(label, container, lines) == [label |-> label, container |-> container, lines |-> lines]

\* for i, line in enumerate(lines): the first label line followed by a line
\* without a colon gives the location and ends the loop; raw holds that line,
\* and is empty when no line was taken
RECURSIVE ScanLines(_, _)
ScanLines(lines, i) ==
    IF i > Len(lines) THEN [raw |-> <<>>, location |-> GenericName]
    ELSE IF HasLabel(lines[i]) /\ i + 1 <= Len(lines) /\ ~HasColon(lines[i + 1])
         THEN [raw |-> <<lines[i + 1]>>, location |-> FormatLocation(lines[i + 1])]
    ELSE ScanLines(lines, i + 1)

\* lines 229-244 of extract_event_details
HallLocation(markup) ==
    IF markup.label /\ markup.container THEN ScanLines(markup.lines, 1)
    ELSE [raw |-> <<>>, location |-> GenericName]

LocationStrings(n) == SeqsUpTo(Tokens, n)
ValueLines(n) == {t \in LocationStrings(n) : t # <<>> /\ StripLocation(t) = t}

CallFormatLocation ==
    /\ ~fl.called /\ ~hl.called
    /\ \E location \in LocationStrings(MaxTokens) :
           fl' = [called |-> TRUE, location |-> location,
                  once |-> FormatLocation(location),
                  twice |-> FormatLocation(FormatLocation(location))]
    /\ UNCHANGED hl

CallHallLocation ==
    /\ ~fl.called /\ ~hl.called
    /\ \E label \in BOOLEAN, container \in BOOLEAN,
          before \in {<<>>, <<DateLine>>, <<LowerLabelLine>>},
          labelLine \in {LabelLine, ArabicLabelLine},
          after \in {<<>>, <<DateLine>>} \cup {<<t>> : t \in ValueLines(MaxTokens)} :
           LET markup == LocationMarkup(label, container, before \o <<labelLine>> \o after)
               r == HallLocation(markup)
           IN  hl' = [called |-> TRUE, markup |-> markup, raw |-> r.raw, location |-> r.location]
    /\ UNCHANGED fl

NextLocation ==
    \/ CallFormatLocation /\ UNCHANGED <<fetchVars, monthVars, rangeVars, detailVars, adnecVars, seleniumVars>>
    \/ CallHallLocation /\ UNCHANGED <<fetchVars, monthVars, rangeVars, detailVars, adnecVars, seleniumVars>>

SpecLocation == Init /\ [][NextLocation]_vars

\* ------------------------------------------------------------------ SpecSelenium
\* fetch_page_with_selenium step by step. Every call on the driver inside the
\* try block either goes through or raises (TimeoutException for the wait).
PageSources == {[kind |-> "html", id |-> "m1"], [kind |-> "html", id |-> "m2"]}

CallFetchPageWithSelenium ==
    /\ sel_pc = "idle"
    /\ sel_pc' = "create"
    /\ UNCHANGED <<driver, quits, scroll_attempt, events_count, last_height,
                   sel_seen, sel_ret, sel_failed>>

\* lines 92-94: driver = self.create_driver(); if not driver: return None
SelCreateDriver ==
    /\ sel_pc = "create"
    /\ \E avail \in BOOLEAN, create \in {"ok", "raises"} :
           LET d == CreateDriver(avail, Browser(create, "ok", None)) IN
           IF d.raised THEN sel_pc' = "raised" /\ UNCHANGED driver
           ELSE IF ~d.driver THEN sel_pc' = "returned" /\ UNCHANGED driver
           ELSE sel_pc' = "get" /\ driver' = "alive"
    /\ UNCHANGED <<quits, scroll_attempt, events_count, last_height,
                   sel_seen, sel_ret, sel_failed>>

\* a step of the try block raising: control goes to the except clause
Raises(step) ==
    /\ sel_pc' = "except"
    /\ sel_failed' = step

\* line 98: driver.get(url)
SelGet ==
    /\ sel_pc = "get"
    /\ \/ sel_pc' = "wait" /\ UNCHANGED sel_failed
       \/ Raises("get")
    /\ UNCHANGED <<driver, quits, scroll_attempt, events_count, last_height,
                   sel_seen, sel_ret>>

\* lines 101-103: WebDriverWait(driver, 10).until(...)
SelWait ==
    /\ sel_pc = "wait"
    /\ \/ sel_pc' = "height" /\ UNCHANGED sel_failed
       \/ Raises("wait")
    /\ UNCHANGED <<driver, quits, scroll_attempt, events_count, last_height,
                   sel_seen, sel_ret>>

\* lines 106-107: last_height = scrollHeight; events_count = 0
SelFirstHeight ==
    /\ sel_pc = "height"
    /\ \/ /\ \E h \in 1..MaxHeight : last_height' = h
          /\ events_count' = 0
          /\ sel_pc' = "scroll"
          /\ UNCHANGED sel_failed
       \/ Raises("height") /\ UNCHANGED <<last_height, events_count>>
    /\ UNCHANGED <<driver, quits, scroll_attempt, sel_seen, sel_ret>>

\* for scroll_attempt in range(10)
LoopGoesOn(started) == started < MaxScrolls

\* if new_count == events_count: break
CountStops(new_count, count) == new_count = count

\* if new_height == last_height: break
HeightStops(new_height, height) == new_height = height

\* lines 109-130: one iteration of the scroll loop
SelScroll ==
    /\ sel_pc = "scroll"
    /\ LoopGoesOn(scroll_attempt)
    /\ \/ \E new_count \in 0..MaxCount, new_height \in 1..MaxHeight :
            /\ scroll_attempt' = scroll_attempt + 1
            /\ UNCHANGED sel_failed
            /\ IF CountStops(new_count, events_count)
               THEN /\ sel_pc' = "source"
                    /\ sel_seen' = [new_count |-> new_count, events_count |-> events_count,
                                    new_height |-> 0, last_height |-> last_height]
                    /\ UNCHANGED <<events_count, last_height>>
               ELSE /\ events_count' = new_count
                    /\ sel_seen' = [new_count |-> new_count, events_count |-> events_count,
                                    new_height |-> new_height, last_height |-> last_height]
                    /\ IF HeightStops(new_height, last_height)
                       THEN sel_pc' = "source" /\ UNCHANGED last_height
                       ELSE sel_pc' = "scroll" /\ last_height' = new_height
       \/ /\ \E step \in {"scroll", "links", "new_height"} : Raises(step)
          /\ scroll_attempt' = scroll_attempt + 1
          /\ UNCHANGED <<events_count, last_height, sel_seen>>
    /\ UNCHANGED <<driver, quits, sel_ret>>

\* the range is used up
SelLoopEnds ==
    /\ sel_pc = "scroll"
    /\ ~LoopGoesOn(scroll_attempt)
    /\ sel_pc' = "source"
    /\ UNCHANGED <<driver, quits, scroll_attempt, events_count, last_height,
                   sel_seen, sel_ret, sel_failed>>

\* where control goes from the except clause and from the return statement
AfterTryLeaks == "returned"
AfterTry == "finally"

\* lines 132-133: html_content = driver.page_source; return html_content
SelPageSource ==
    /\ sel_pc = "source"
    /\ \/ /\ \E html \in PageSources : sel_ret' = html
          /\ sel_pc' = AfterTry
          /\ UNCHANGED sel_failed
       \/ Raises("source") /\ UNCHANGED sel_ret
    /\ UNCHANGED <<driver, quits, scroll_attempt, events_count, last_height, sel_seen>>

\* lines 135-137: except Exception: return None
SelExcept ==
    /\ sel_pc = "except"
    /\ sel_ret' = None
    /\ sel_pc' = AfterTry
    /\ UNCHANGED <<driver, quits, scroll_attempt, events_count, last_height,
                   sel_seen, sel_failed>>

\* lines 138-139: finally: driver.quit()
SelFinally ==
    /\ sel_pc = "finally"
    /\ driver' = "quit"
    /\ quits' = quits + 1
    /\ sel_pc' = "returned"
    /\ UNCHANGED <<scroll_attempt, events_count, last_height, sel_seen, sel_ret, sel_failed>>

NextSelenium ==
    \/ CallFetchPageWithSelenium /\ UNCHANGED <<fetchVars, monthVars, rangeVars, detailVars, adnecVars, locationVars>>
    \/ SelCreateDriver /\ UNCHANGED <<fetchVars, monthVars, rangeVars, detailVars, adnecVars, locationVars>>
    \/ SelGet /\ UNCHANGED <<fetchVars, monthVars, rangeVars, detailVars, adnecVars, locationVars>>
    \/ SelWait /\ UNCHANGED <<fetchVars, monthVars, rangeVars, detailVars, adnecVars, locationVars>>
    \/ SelFirstHeight /\ UNCHANGED <<fetchVars, monthVars, rangeVars, detailVars, adnecVars, locationVars>>
    \/ SelScroll /\ UNCHANGED <<fetchVars, monthVars, rangeVars, detailVars, adnecVars, locationVars>>
    \/ SelLoopEnds /\ UNCHANGED <<fetchVars, monthVars, rangeVars, detailVars, adnecVars, locationVars>>
    \/ SelPageSource /\ UNCHANGED <<fetchVars, monthVars, rangeVars, detailVars, adnecVars, locationVars>>
    \/ SelExcept /\ UNCHANGED <<fetchVars, monthVars, rangeVars, detailVars, adnecVars, locationVars>>
    \/ SelFinally /\ UNCHANGED <<fetchVars, monthVars, rangeVars, detailVars, adnecVars, locationVars>>

SpecSelenium == Init /\ [][NextSelenium]_vars

\* ------------------------------------------------------------------ claims: fetch_page
\* the k-th smallest element of a finite set of integers
Kth(S, k) == CHOOSE i \in S : Cardinality({j \in S : j <= i}) = k

FailedAttempts(outs) == {i \in 1..Len(outs) : ~outs[i].ok}
OkAttempts(outs) == {i \in 1..Len(outs) : outs[i].ok}

\* C3: on the plain transport path of either fetcher the k-th wait of a call is
\* 1, 2, 4, ... (2^attempt after failed attempt number attempt), each wait directly
\* follows a failed attempt and is directly followed by the next attempt, so that
\* nothing is waited after the last attempt, failed or successful.
C3_BackoffDoubles ==
    (fp.called /\ fp.plain) =>
        LET tr == fp.res.trace
            sl == SleepsOf(tr)
        IN /\ \A k \in 1..Cardinality(sl) :
                  LET i == Kth(sl, k) IN
                  /\ tr[i].n = <<1, 2, 4, 8, 16, 32>>[k]
                  /\ i > 1 /\ tr[i - 1] = Get(k - 1) /\ ~fp.outs[k].ok
                  /\ i < Len(tr) /\ tr[i + 1] = Get(k)
           /\ \A i, j \in sl : i < j => tr[i].n < tr[j].n
           /\ tr # <<>> => tr[Len(tr)].ev = "get"
           \* every failed attempt but the last one of the budget is waited after
           /\ \A a \in FailedAttempts(fp.outs) :
                  (a < fp.retries /\ \A b \in 1..a : ~fp.outs[b].ok)
                      => Cardinality(sl) >= a

\* three failed attempts in a row out of a budget of four: waits 1, 2, 4
C3_Witness ==
    /\ fp.called /\ fp.plain /\ fp.retries = 4
    /\ FailedAttempts(fp.outs) = 1..4
    /\ Cardinality(SleepsOf(fp.res.trace)) = 3

\* C4: fetch_page(url, r) on the plain path never raises on a transport failure,
\* makes at most r attempts, stops at the first successful attempt and returns its
\* markup, and returns None after r failed attempts.
C4_BoundedAttemptsFirstSuccess ==
    (fp.called /\ fp.plain) =>
        LET tr == fp.res.trace
            n == Cardinality(GetsOf(tr))
            ok == OkAttempts(fp.outs)
        IN /\ ~fp.res.raised
           /\ n <= fp.retries
           /\ \A k \in 1..n : tr[Kth(GetsOf(tr), k)] = Get(k - 1)
           /\ ok # {} => /\ n = Kth(ok, 1)
                         /\ fp.res.ret = fp.outs[Kth(ok, 1)].text
           /\ ok = {} => /\ n = fp.retries
                         /\ fp.res.ret = None

\* a success on the third attempt, before an attempt that would have succeeded
\* with another body
C4_Witness ==
    /\ fp.called /\ fp.plain /\ fp.retries = 4
    /\ OkAttempts(fp.outs) = {3, 4}
    /\ fp.outs[3].text # fp.outs[4].text
    /\ fp.res.ret = fp.outs[3].text

\* ------------------------------------------------------------------ claims: fetch_events_for_month
DistinctUrls(evs) ==
    \A i, j \in 1..Len(evs) : i # j => evs[i].url # evs[j].url

\* the candidates of a page, calendar records first
Candidates(page) == ExtractEventsFromCalendar(page) \o ExtractEventsFromList(page)
\* the positions of the candidates whose url no earlier candidate has
FirstOccurrences(all) ==
    {i \in 1..Len(all) : \A j \in 1..(i - 1) : all[j].url # all[i].url}

\* C2: for a fetched page the result of fetch_events_for_month is the calendar
\* records followed by the list records with, for each url, only the first
\* record kept: N - M records for N candidates of which M repeat an earlier url,
\* all urls distinct, in the order of first occurrence.
C2_FirstOccurrenceWins ==
    (mo.called /\ mo.nfail = 0) =>
        LET all == Candidates(mo.page)
            keep == FirstOccurrences(all)
            N == Len(all)
            M == N - Cardinality(keep)
            res == mo.res.events
        IN /\ Len(res) = N - M
           /\ DistinctUrls(res)
           /\ \A k \in 1..Len(res) : res[k] = all[Kth(keep, k)]

\* four candidates, two of them repeats, and a list record that survives
C2_Witness ==
    /\ mo.called /\ mo.nfail = 0
    /\ Len(Candidates(mo.page)) = 4
    /\ Len(mo.res.events) = 2
    /\ mo.res.events[2] \in Range(ExtractEventsFromList(mo.page))
    /\ mo.res.events[2] \notin Range(ExtractEventsFromCalendar(mo.page))

\* C6: no record of fetch_events_for_month has a title that is, trimmed and in
\* lower case, one of "view event", "export" or the Arabic-language label.
C6_NoBoilerplateTitle ==
    mo.called =>
        \A i \in 1..Len(mo.res.events) :
            Lower(Strip(mo.res.events[i].title)) \notin {"view event", "export", ArabicLabel}

\* ------------------------------------------------------------------ claims: fetch_events_for_date_range
CyclesOf(log) == {i \in 1..Len(log) : log[i].ev = "cycle"}

\* C1: no two records of an aggregated result share a url (stated here for the
\* sequence fetch_events_for_date_range returns).
C1_NoDuplicateUrls ==
    rg_pc = "done" => DistinctUrls(all_events)

\* C7: for valid months and a start not after the end, the range runs one
\* fetch/extract cycle per month of the inclusive range, in calendar order
\* (month 12 rolls to month 1 of the next year), that is
\* 12*(end_year-start_year)+(end_month-start_month)+1 cycles, a sleep of 1 comes
\* directly before every cycle but the first, and a range whose start is its end
\* returns what fetch_events_for_month returns for that month.
C7_OneCyclePerMonth ==
    (/\ rg_pc = "done"
     /\ rg_args.start_month \in 1..12 /\ rg_args.end_month \in 1..12
     /\ \/ rg_args.start_year < rg_args.end_year
        \/ (rg_args.start_year = rg_args.end_year /\ rg_args.start_month <= rg_args.end_month))
    => LET cyc == CyclesOf(rg_log)
           count == 12 * (rg_args.end_year - rg_args.start_year)
                    + (rg_args.end_month - rg_args.start_month) + 1
       IN /\ Cardinality(cyc) = count
          /\ \A k \in 1..Cardinality(cyc) :
                 LET c == rg_log[Kth(cyc, k)]
                     m0 == rg_args.start_month - 1 + (k - 1)
                 IN /\ c.month = (m0 % 12) + 1
                    /\ c.year = rg_args.start_year + (m0 \div 12)
                    /\ k > 1 => rg_log[Kth(cyc, k) - 1] = Sleep(1)
          /\ Len(rg_hist) = count
          /\ count = 1 => all_events = FetchEventsForMonth(rg_hist[1]).events

\* December 2024 to February 2025: three cycles across the year's end
C7_Witness ==
    /\ rg_pc = "done"
    /\ rg_args.start_month = 12 /\ rg_args.start_year = 2024
    /\ rg_args.end_month = 2 /\ rg_args.end_year = 2025
    /\ Cardinality(CyclesOf(rg_log)) = 3
    /\ all_events # <<>>

\* the records of one month's page: nothing when every attempt failed, else the
\* first occurrences among the candidates of the page served
MonthRecords(outs) ==
    IF OkAttempts(outs) = {} THEN <<>>
    ELSE LET all == Candidates(outs[Kth(OkAttempts(outs), 1)].text.page)
             keep == FirstOccurrences(all)
         IN [k \in 1..Cardinality(keep) |-> all[Kth(keep, k)]]

\* C13: a month whose listing fetch used up its retries adds no record and does
\* not end the run: the result is the months' records in order, with nothing
\* for the failed months, and every month of the range has had its cycle.
C13_FailedMonthSkipped ==
    /\ Len(rg_hist) = Cardinality(CyclesOf(rg_log))
    /\ all_events = Flatten([k \in 1..Len(rg_hist) |-> MonthRecords(rg_hist[k])])
    /\ (/\ rg_pc = "done"
        /\ \/ rg_args.start_year < rg_args.end_year
           \/ (rg_args.start_year = rg_args.end_year /\ rg_args.start_month <= rg_args.end_month))
       => Len(rg_hist) = 12 * (rg_args.end_year - rg_args.start_year)
                         + (rg_args.end_month - rg_args.start_month) + 1

\* three months, the first of which failed on every attempt and the last of
\* which gave records after an earlier month's records
C13_Witness ==
    /\ rg_pc = "done"
    /\ Len(rg_hist) = 3
    /\ OkAttempts(rg_hist[1]) = {}
    /\ MonthRecords(rg_hist[2]) # <<>>
    /\ MonthRecords(rg_hist[3]) # <<>>
    /\ all_events = MonthRecords(rg_hist[2]) \o MonthRecords(rg_hist[3])

\* ------------------------------------------------------------------ claims: ADNEC
\* C9: extract_event_details raises for no content of the structured-data blocks.
C9_ExtractionNeverRaises ==
    det.called => ~det.res.raised

\* C5: every record of the output has a non-empty title and a non-empty url
\* (stated here for the records fetch_all_events builds).
C5_RequiredFields ==
    \A i \in 1..Len(events) : events[i].title # "" /\ events[i].url # NoUrl

\* the items whose primary-language extraction gave a record
Extracted(items) == {i \in 1..Len(items) : items[i].en = "record"}

\* C8: an item whose primary-language extraction yields absence adds no record
\* and does not stop the loop: while the loop runs every item before ad_i has
\* been processed, and the records are those of the items whose primary
\* extraction gave a record, in listing order; at the return every item of the
\* listing has been processed.
C8_AbsentItemsSkipped ==
    (ad_pc \in {"items", "done"} /\ ad_hist.en = "fetched") =>
        LET items == ad_hist.items
            ok == Extracted(items)
        IN /\ Len(items) = ad_i - 1
           /\ ad_pc = "done" => Len(items) = Len(en_urls)
           /\ Len(events) = Cardinality(ok)
           /\ \A k \in 1..Len(events) :
                  /\ events[k].url = en_urls[Kth(ok, k)]
                  /\ events[k].title = items[Kth(ok, k)].title

\* a first item without a usable page, a second one with a record
C8_Witness ==
    /\ ad_pc = "done"
    /\ Len(en_urls) = 2
    /\ Len(ad_hist.items) = 2
    /\ ad_hist.items[1].en = "absent"
    /\ ad_hist.items[2].en = "record"
    /\ Len(events) = 1 /\ events[1].url = en_urls[2]

\* C10: a browser that cannot be created makes the listing fetch return absence:
\* fetch_all_events returns [] when it was the primary listing, and goes on with
\* an empty url mapping when it was the secondary listing.
C10_DriverFailureAbsorbed ==
    /\ ad_hist.en = "driver_failed" => (ad_pc = "done" /\ events = <<>>)
    /\ ad_hist.ar = "driver_failed" => (ad_pc # "raised" /\ url_mapping = EmptyMapping)

\* ------------------------------------------------------------------ claims: browser fetch
\* C11: a browser instance that was created is quit exactly once by the time
\* fetch_page_with_selenium returns, whichever step of the try block raised or
\* none, it is never quit twice, and it is alive only while the call runs.
C11_DriverQuitOnce ==
    /\ quits <= 1
    /\ driver = "alive" => sel_pc \notin {"idle", "create", "returned", "raised"}
    /\ sel_pc \in {"returned", "raised"} =>
           /\ driver # "alive"
           /\ driver = "quit" <=> quits = 1

\* the call returned None after the link count raised in the third iteration
C11_Witness ==
    /\ sel_pc = "returned"
    /\ sel_failed = "links"
    /\ scroll_attempt = 3
    /\ sel_ret = None
    /\ driver = "quit" /\ quits = 1

\* C15: the scroll loop runs at least one and at most 10 iterations; after an
\* iteration it goes on only if the link count has increased over the previous
\* count and the height has changed, and it stops at the first iteration after
\* which the count has not increased or the height is unchanged.
C15_ScrollLoop ==
    /\ scroll_attempt <= 10
    /\ (sel_pc \in {"source", "finally"} /\ sel_failed = "") => scroll_attempt >= 1
    /\ (sel_pc = "scroll" /\ scroll_attempt >= 1) =>
           /\ sel_seen.new_count > sel_seen.events_count
           /\ sel_seen.new_height # sel_seen.last_height
    /\ (sel_pc = "source" /\ scroll_attempt < 10) =>
           \/ sel_seen.new_count <= sel_seen.events_count
           \/ sel_seen.new_height = sel_seen.last_height

\* ------------------------------------------------------------------ claims: location
\* C12: format_location is idempotent: formatting an already formatted string
\* gives it back unchanged, so a wrapped location is never wrapped again.
C12_FormatLocationIdempotent == fl.called => fl.twice = fl.once

\* "Hall 3" becomes "ADNEC (Hall 3)", which formatting leaves alone
C12_Witness ==
    /\ fl.called
    /\ fl.location = <<"Hall", " ", "3">>
    /\ fl.once = <<"ADNEC", " ", "(", "Hall", " ", "3", ")">>
    /\ fl.twice = fl.once

\* C14: when a location label is found and the raw line after it neither matches
\* the hall pattern nor contains 'hall', the location is the venue's generic
\* name; when it matches the pattern or contains 'hall' without 'ADNEC', the
\* location is "ADNEC (<raw>)".
C14_LocationFromRawLine ==
    (hl.called /\ hl.raw # <<>>) =>
        LET raw == hl.raw[1] IN
        /\ (~MatchesHallPattern(raw) /\ ~ContainsHall(raw)) => hl.location = GenericName
        /\ (MatchesHallPattern(raw) \/ (ContainsHall(raw) /\ ~ContainsAdnec(raw))) =>
               hl.location = <<"ADNEC", " ", "(">> \o raw \o <<")">>

\* ------------------------------------------------------------------ claims: fetch_all_events
\* the positions in the log at which the loop takes up an item
ItemsOf(log) == {p \in 1..Len(log) : log[p].ev = "item"}

\* C16: a pause of 1 separates any two consecutive listing items: whenever the
\* loop takes up a second or later item, the last thing before it was a wait of
\* 1, also when the item before was skipped.
C16_PauseBetweenItems ==
    \A p \in ItemsOf(ad_log) : ad_log[p].n >= 2 => ad_log[p - 1] = Sleep(1)

\* the requests made for the i-th item: those between its place in the log and
\* the next item's
ItemGets(log, i) ==
    LET from == Kth(ItemsOf(log), i)
        to == IF i < Cardinality(ItemsOf(log)) THEN Kth(ItemsOf(log), i + 1) ELSE Len(log) + 1
    IN {p \in GetsOf(log) : from < p /\ p < to}

\* C17: every record's url is a url of the primary listing; its url_ar is empty
\* or the url of the secondary listing with the same slug; the secondary detail
\* page is requested only for a mapped item and gives only title_ar, title and
\* organizer being the primary page's; a secondary extraction that yields
\* nothing leaves title_ar empty and keeps the record. Without include_arabic
\* no secondary page is requested and title_ar and url_ar are empty throughout.
C17_SecondaryLanguageOnlyTitle ==
    LET items == ad_hist.items
        ok == Extracted(items)
    IN /\ \A k \in 1..Len(events) :
              LET ev == events[k]
                  i == Kth(ok, k)
              IN /\ ev.url \in Range(en_urls)
                 /\ \/ ev.url_ar = NoUrl
                    \/ /\ ev.url_ar \in Range(ad_hist.ar_urls)
                       /\ ev.url_ar.slug = ev.url.slug
                 /\ ev.url_ar = NoUrl <=>
                        \A u \in Range(ad_hist.ar_urls) : u.slug # ev.url.slug
                 /\ ev.url_ar = NoUrl =>
                        Cardinality(ItemGets(ad_log, i)) = items[i].en_gets
                 /\ ev.url_ar # NoUrl =>
                        Cardinality(ItemGets(ad_log, i)) > items[i].en_gets
                 /\ ev.title = items[i].title
                 /\ ev.organizer = items[i].organizer
                 /\ ev.title_ar = (IF items[i].ar = "record" THEN items[i].ar_title ELSE "")
       /\ \A i \in 1..Len(items) :
              (items[i].en = "record" /\ items[i].ar = "absent") => i \in {Kth(ok, k) : k \in 1..Len(events)}
       /\ ~ad_args.include_arabic =>
              /\ ad_hist.ar = "none"
              /\ \A k \in 1..Len(events) :
                     events[k].title_ar = "" /\ events[k].url_ar = NoUrl

\* two records with a secondary url each: the first with the title of its
\* secondary page, the second with a secondary page that gave nothing
C17_Witness ==
    /\ ad_pc = "done"
    /\ ad_args.include_arabic
    /\ Len(events) = 2
    /\ events[1].url_ar = Url("ar", events[1].url.slug)
    /\ events[1].title_ar = ArabicTitle /\ events[1].title = "Expo 2025"
    /\ events[2].url_ar = Url("ar", events[2].url.slug)
    /\ ad_hist.items[2].ar = "absent" /\ events[2].title_ar = ""

====
